---- MODULE Spec2Model ----
(***************************************************************************)
(* kubectl-pfw: the port-forward Manager, its PortAllocator and the        *)
(* connect/retry goroutine and monitor goroutine of every PortForwarder.   *)
(*                                                                         *)
(* Go slices and port-mapping keys are 0-based; sequences here are         *)
(* 1-based, so port index i of the code is index i+1 of the model.         *)
(* Durations are counted in seconds.                                       *)
(***************************************************************************)
EXTENDS Integers, Sequences, FiniteSets, TLC

\* ------------------------------------------------------------------ bounds
\* Sessions (PortForwarders) one Manager ever starts.
MaxSessions == 2
\* Local and container ports are 1..MaxPort; 0 is "ephemeral / not set".
MaxPort == 2
\* Calls a caller makes on a PortAllocator directly.
MaxAllocCalls == 4
\* Sessions whose tunnel the environment ever lets fail.
MaxFailingSessions == 1

\* ------------------------------------------------------- program constants
MaxRetries == 5
InitialBackoff == 1
MaxBackoff == 30
BackoffFactor == 2
AutoRetryEnable == TRUE

PortNums == 1..MaxPort
SessionIds == 1..MaxSessions

\* ---------------------------------------------------------------- ui types
ServiceResource == "service"
PodResource == "pod"
DeploymentResource == "deployment"
StatefulSetResource == "statefulset"

\* intstr.IntOrString: a nil pointer, an Int or a String.
NilSpec == [Type |-> "nil", IntVal |-> 0, StrVal |-> ""]
IntSpec(n) == [Type |-> "Int", IntVal |-> n, StrVal |-> ""]
StrSpec(s) == [Type |-> "String", IntVal |-> 0, StrVal |-> s]

\* The resources the callers hand to ForwardResource (ui.Resource values): a
\* pod with one port, a service with two ports (the first targets the pod
\* port named "http", the second a number), a deployment with the name and
\* namespace of the pod, and a resource whose type is none of the four
\* ResourceType constants.
Resources ==
  << [Name |-> "a", Namespace |-> "ns", Type |-> PodResource,
      Ports |-> <<1>>, TargetPortSpecs |-> <<IntSpec(1)>>],
     [Name |-> "b", Namespace |-> "ns", Type |-> ServiceResource,
      Ports |-> <<1, 2>>, TargetPortSpecs |-> <<StrSpec("http"), IntSpec(1)>>],
     [Name |-> "a", Namespace |-> "ns", Type |-> DeploymentResource,
      Ports |-> <<1>>, TargetPortSpecs |-> <<>>],
     [Name |-> "c", Namespace |-> "ns", Type |-> "job",
      Ports |-> <<1>>, TargetPortSpecs |-> <<>>] >>

ResourceIds == 1..Len(Resources)

\* The k8s.Pod the discovery calls return as first candidate (they drop the
\* pods without ports).
PodWithPorts == [Name |-> "pod-1", Namespace |-> "ns",
                 Ports |-> << [Name |-> "metrics", ContainerPort |-> 1],
                              [Name |-> "http", ContainerPort |-> 2] >>]

\* Outcomes of GetPodsForService / GetPodsForDeployment / GetPodsForStatefulSet:
\* an error, no pod with ports, or a list of pods.
DiscoveryOutcomes ==
  { [err |-> TRUE, pods |-> <<>>],
    [err |-> FALSE, pods |-> <<>>],
    [err |-> FALSE, pods |-> <<PodWithPorts>>] }

\* Port mappings map[int]int32 a caller can pass for a resource: every
\* partial function from its port indices to a requested local port.
PortMappings(r) ==
  UNION { [D -> 0..MaxPort] : D \in SUBSET (1..Len(r.Ports)) }

\* --------------------------------------------------------------- variables
VARIABLES
  allocatedPorts,  \* PortAllocator.allocatedPorts: the set of keys
  Forwarders,      \* Manager.Forwarders: sequence of PortForwarder fields
  StopChannel,     \* per session: "open" or "closed"
  ReadyChannel,    \* per session: "open" or "closed"
  ErrorChannel,    \* per session: number of buffered errors (capacity 1)
  RetryAttempts,   \* per session: PortForwarder.RetryAttempts
  connPc,          \* per session: position of the StartPortForward goroutine
  backoff,         \* per session: the goroutine's local backoff, in seconds
  monPc,           \* per session: position of the monitor goroutine
  ForwardWait,     \* Manager.ForwardWait counter
  ctxDone,         \* Manager.Context is cancelled
  call,            \* the ForwardResource call holding Manager.mutex, if any
  lastReturn,      \* what the last ForwardResource or Stop call returned
  panicSite,       \* "none", or where the process panicked
  waitReturned,    \* WaitForCompletion has returned (Run returns, the process exits)
  releases,        \* per session: ReleasePort calls made for its port
  attempts,        \* per session: ForwardPorts calls made
  failures,        \* per session: ForwardPorts calls that returned an error
  errorsSent,      \* per session: values sent on its ErrorChannel
  waits,           \* per session: backoff waits that elapsed, in order
  reqAutoRetry,    \* per session: ForwardRequest.AutoRetry it was started with
  allocLog,        \* the calls made on a PortAllocator directly, with their results
  resolveCall,     \* the last resolveTargetPort call made by itself, with its result
  forwardCall,     \* the last forward*Port call made by itself, with its possible results
  mu,              \* PortAllocator.mu: 0, or the task that holds the lock
  tasks,           \* per task calling the PortAllocator concurrently: where it is in its call
  runCall,         \* the last Run of the command, with its flags and its result
  configCall       \* the last generate, write, load and convert of a configuration, with its results

vars == << allocatedPorts, Forwarders, StopChannel, ReadyChannel, ErrorChannel,
           RetryAttempts, connPc, backoff, monPc, ForwardWait, ctxDone, call,
           lastReturn, panicSite, waitReturned, releases, attempts, failures,
           errorsSent, waits, reqAutoRetry, allocLog, resolveCall,
           forwardCall,
           mu,
           tasks,
           runCall,
           configCall >>

NoCall == [active |-> FALSE]
NoResolve == [called |-> FALSE]
NoForward == [called |-> FALSE]
NoRun == [called |-> FALSE]
NoConfig == [called |-> FALSE]
NoReturn == [op |-> "none"]

\* The tasks that call one PortAllocator concurrently, and a task in no call.
MaxTasks == 2
Tasks == 1..MaxTasks
IdleTask == [pc |-> "idle", port |-> 0]

Registered == 1..Len(Forwarders)

\* The local ports a tunnel of this process is listening on right now.
BoundPorts == { Forwarders[f].LocalPort : f \in { g \in Registered : connPc[g] = "serving" } }

\* ----------------------------------------------------------- PortAllocator
\* net.Listen on a specific port: it fails when a tunnel of this process is
\* listening on the port, and may fail when another process holds it.
ListenOutcomes(port) ==
  IF port \in BoundPorts THEN {FALSE} ELSE {TRUE, FALSE}

\* net.Listen on ":0": the OS hands out any port nobody is listening on, or
\* fails. The OS knows nothing of the allocator's table.
ListenEphemeralOutcomes == (PortNums \ BoundPorts) \cup {0}

\* A reservation that does not look at the table.
reserveSpecificPortUnchecked(alloc, port) ==
  { IF ok THEN [err |-> "", alloc |-> alloc \cup {port}]
          ELSE [err |-> "not available", alloc |-> alloc]
    : ok \in ListenOutcomes(port) }

\* reserveSpecificPort: outcomes [err, alloc] on table alloc.
reserveSpecificPort(alloc, port) ==
  IF port \in alloc
    THEN { [err |-> "already allocated", alloc |-> alloc] }
    ELSE { IF ok THEN [err |-> "", alloc |-> alloc \cup {port}]
                 ELSE [err |-> "not available", alloc |-> alloc]
           : ok \in ListenOutcomes(port) }

\* findAvailableEphemeralPort: outcomes [err, port, alloc].
findAvailableEphemeralPort(alloc) ==
  { IF p = 0 THEN [err |-> "failed to bind to ephemeral port", port |-> 0, alloc |-> alloc]
             ELSE [err |-> "", port |-> p, alloc |-> alloc \cup {p}]
    : p \in ListenEphemeralOutcomes }

\* An allocation that records the requested port before it binds it.
AllocatePortRecordsFirst(alloc, requestedPort) ==
  IF requestedPort > 0
    THEN { IF o.err # "" THEN [err |-> o.err, port |-> 0, alloc |-> alloc \cup {requestedPort}]
                         ELSE [err |-> "", port |-> requestedPort, alloc |-> o.alloc]
           : o \in reserveSpecificPort(alloc, requestedPort) }
    ELSE { IF o.err # "" THEN [err |-> "failed to allocate ephemeral port", port |-> 0, alloc |-> o.alloc]
                         ELSE o
           : o \in findAvailableEphemeralPort(alloc) }

\* AllocatePort: outcomes [err, port, alloc].
AllocatePort(alloc, requestedPort) ==
  IF requestedPort > 0
    THEN { IF o.err # "" THEN [err |-> o.err, port |-> 0, alloc |-> o.alloc]
                         ELSE [err |-> "", port |-> requestedPort, alloc |-> o.alloc]
           : o \in reserveSpecificPort(alloc, requestedPort) }
    ELSE { IF o.err # "" THEN [err |-> "failed to allocate ephemeral port", port |-> 0, alloc |-> o.alloc]
                         ELSE o
           : o \in findAvailableEphemeralPort(alloc) }

\* A release that leaves the table as it is.
ReleasePortKeeps(alloc, port) == alloc

\* A release that empties the table.
ReleasePortClears(alloc, port) == {}

\* A probe that reports every port as available.
IsPortAvailableAlways(listenOk) == TRUE

\* IsPortAvailable: what it returns when its net.Listen succeeded (listenOk) or
\* failed; it is a function of the package and has no allocator to read.
IsPortAvailable(listenOk) == IF ~listenOk THEN FALSE ELSE TRUE

ReleasePort(alloc, port) == alloc \ {port}

\* --------------------------------------------------------- resolveTargetPort
\* A scan that returns the last port of the name instead of the first.
FindNamedPortLast(ports, portName, i) ==
  LET matches == { k \in i..Len(ports) : ports[k].Name = portName }
  IN IF matches = {} THEN 0
     ELSE ports[CHOOSE k \in matches : \A m \in matches : m <= k].ContainerPort

RECURSIVE FindNamedPort(_, _, _)
\* The loop of resolveTargetPort over pod.Ports from index i: the
\* containerPort of the first port named portName, or 0 when there is none.
FindNamedPort(ports, portName, i) ==
  IF i > Len(ports) THEN 0
  ELSE IF ports[i].Name = portName THEN ports[i].ContainerPort
  ELSE FindNamedPort(ports, portName, i + 1)

HasNamedPort(ports, portName) == \E i \in 1..Len(ports) : ports[i].Name = portName

\* A resolution that takes every numeric spec as it is.
resolveTargetPortKeepsZero(targetSpec, servicePort, pod) ==
  IF targetSpec.Type = "nil" THEN [err |-> "", port |-> servicePort]
  ELSE IF targetSpec.Type = "Int" THEN [err |-> "", port |-> targetSpec.IntVal]
  ELSE IF targetSpec.Type = "String" /\ HasNamedPort(pod.Ports, targetSpec.StrVal)
    THEN [err |-> "", port |-> FindNamedPort(pod.Ports, targetSpec.StrVal, 1)]
  ELSE [err |-> "named target port not found", port |-> 0]

\* A resolution that leaves the target port to the API server and keeps the
\* service port.
resolveTargetPortServicePort(targetSpec, servicePort, pod) ==
  [err |-> "", port |-> servicePort]

resolveTargetPort(targetSpec, servicePort, pod) ==
  IF targetSpec.Type = "nil" THEN [err |-> "", port |-> servicePort]
  ELSE IF targetSpec.Type = "Int"
    THEN IF targetSpec.IntVal = 0 THEN [err |-> "", port |-> servicePort]
         ELSE [err |-> "", port |-> targetSpec.IntVal]
  ELSE IF targetSpec.Type = "String"
    THEN IF HasNamedPort(pod.Ports, targetSpec.StrVal)
           THEN [err |-> "", port |-> FindNamedPort(pod.Ports, targetSpec.StrVal, 1)]
           ELSE [err |-> "named target port not found", port |-> 0]
  ELSE [err |-> "unknown targetPort type", port |-> 0]

\* ------------------------------------------------------------ PortForwarder
\* PortForwarder.Stop is close(pf.StopChannel): closing a closed channel panics.
PortForwarderStop(channel) ==
  [channel |-> "closed", panics |-> channel = "closed"]

\* StartPortForward up to the launch of the goroutine: the errors it can
\* return for a request. spdy.RoundTripperFor reads the rest config and may fail.
StartPortForwardErrors(resourceType, podName) ==
  IF resourceType \in {ServiceResource, DeploymentResource, StatefulSetResource}
    THEN IF podName = "" THEN {"pod name is required"}
         ELSE {"", "failed to create round tripper"}
  ELSE IF resourceType = PodResource
    THEN {"", "failed to create round tripper"}
  ELSE {"unsupported resource type"}

\* The decimal digits.
Digits == << "0", "1", "2", "3", "4", "5", "6", "7", "8", "9" >>

\* fmt's %d of an int32.
RECURSIVE FormatInt(_)
FormatInt(n) ==
  IF n < 0 THEN "-" \o FormatInt(0 - n)
  ELSE IF n < 10 THEN Digits[n + 1]
  ELSE FormatInt(n \div 10) \o Digits[(n % 10) + 1]

\* A status string that shows the ports the other way round.
GetPortForwardStringSwapped(resource, RemotePort, LocalPort) ==
  "Forwarding " \o resource.Type \o "/" \o resource.Name
    \o " (target port " \o FormatInt(LocalPort) \o ") -> localhost:" \o FormatInt(RemotePort)

\* pf.GetPortForwardString() of a PortForwarder with these fields.
GetPortForwardString(resource, RemotePort, LocalPort) ==
  LET resourceType ==
        IF resource.Type = ServiceResource THEN "service"
        ELSE IF resource.Type = DeploymentResource THEN "deployment"
        ELSE IF resource.Type = StatefulSetResource THEN "statefulset"
        ELSE "pod"
  IN "Forwarding " \o resourceType \o "/" \o resource.Name
       \o " (target port " \o FormatInt(RemotePort) \o ") -> localhost:" \o FormatInt(LocalPort)

\* autoRetry as StartPortForward computes it from the request.
AutoRetryOf(requested) ==
  IF requested THEN requested ELSE AutoRetryEnable

\* The backoff after one more retry.
NextBackoff(b) ==
  IF b * BackoffFactor > MaxBackoff THEN MaxBackoff ELSE b * BackoffFactor

\* ---------------------------------------------------------------- Manager
\* The result of one iteration of ForwardResource's loop before any state is
\* written: err ("" for success), the allocation table, the ports of the
\* request, and whether the failure path runs the rollback.
Fail(e) ==
  [err |-> e, alloc |-> allocatedPorts, LocalPort |-> 0, RemotePort |-> 0,
   PodName |-> "", rollback |-> FALSE]

\* An allocation block whose arm for localPort == 0 gives up on the suggested port.
allocateLocalPortNoFallback(alloc, localPort, suggestedPort) ==
  { IF a.err # ""
      THEN [err |-> "failed to allocate requested local port", port |-> 0, alloc |-> a.alloc]
      ELSE a
    : a \in AllocatePort(alloc, IF localPort = 0 THEN suggestedPort ELSE localPort) }

\* The block "if localPort == 0 { suggested, else ephemeral } else { requested }"
\* that ForwardResource and every forward*Port function repeat.
allocateLocalPort(alloc, localPort, suggestedPort) ==
  IF localPort = 0
    THEN UNION { IF a.err = "" THEN {a}
                 ELSE { IF b.err # ""
                          THEN [err |-> "failed to allocate local port", port |-> 0, alloc |-> b.alloc]
                          ELSE b
                        : b \in AllocatePort(a.alloc, 0) }
                 : a \in AllocatePort(alloc, suggestedPort) }
    ELSE { IF a.err # ""
             THEN [err |-> "failed to allocate requested local port", port |-> 0, alloc |-> a.alloc]
             ELSE [err |-> "", port |-> localPort, alloc |-> a.alloc]
           : a \in AllocatePort(alloc, localPort) }

\* Allocation followed by StartPortForward, as every branch does it.
allocateAndStart(r, localPort, remotePort, podName) ==
  UNION { IF a.err # "" THEN { Fail(a.err) }
          ELSE { [err |-> e, alloc |-> a.alloc, LocalPort |-> a.port,
                  RemotePort |-> remotePort, PodName |-> podName,
                  rollback |-> e # ""]
                 : e \in StartPortForwardErrors(r.Type, podName) }
          : a \in allocateLocalPort(allocatedPorts, localPort, remotePort) }

\* A selection loop that keeps the last candidate.
selectedPodLast(pods) == pods[Len(pods)]

\* The loop "for i := range pods { selectedPod = &pods[i]; break }" on a
\* list that is not empty.
selectedPodOf(pods) == pods[1]

\* forwardServicePort once GetPodsForService has returned d.
forwardServicePortOn(d, r, portIndex, localPort, servicePort) ==
  IF portIndex > Len(r.TargetPortSpecs)
    THEN { Fail("port index out of bounds for target port specs") }
  ELSE IF d.err THEN { Fail("failed to find pods") }
  ELSE IF d.pods = <<>> THEN { Fail("no pods found") }
  ELSE LET selectedPod == selectedPodOf(d.pods)
           resolved == resolveTargetPort(r.TargetPortSpecs[portIndex],
                                         servicePort, selectedPod)
       IN IF resolved.err # ""
            THEN { Fail("failed to resolve target port") }
            ELSE allocateAndStart(r, localPort, resolved.port, selectedPod.Name)

forwardServicePort(r, portIndex, localPort, servicePort) ==
  UNION { forwardServicePortOn(d, r, portIndex, localPort, servicePort)
          : d \in DiscoveryOutcomes }

\* forwardDeploymentPort once GetPodsForDeployment has returned d;
\* forwardStatefulSetPort is the same code with GetPodsForStatefulSet.
forwardDeploymentPortOn(d, r, portIndex, localPort) ==
  IF d.err THEN { Fail("failed to find pods") }
  ELSE IF d.pods = <<>> THEN { Fail("no pods found") }
  ELSE LET selectedPod == selectedPodOf(d.pods)
       IN IF portIndex <= Len(selectedPod.Ports)
            THEN allocateAndStart(r, localPort,
                   selectedPod.Ports[portIndex].ContainerPort, selectedPod.Name)
          ELSE IF Len(selectedPod.Ports) > 0
            THEN allocateAndStart(r, localPort,
                   selectedPod.Ports[1].ContainerPort, selectedPod.Name)
          ELSE { Fail("no container ports found in pod") }

forwardDeploymentPort(r, portIndex, localPort) ==
  UNION { forwardDeploymentPortOn(d, r, portIndex, localPort) : d \in DiscoveryOutcomes }

\* A loop that stays on the index it has just processed.
nextIndexStays(i) == i

\* "for i, portValue := range resource.Ports": the index after i.
nextIndex(i) == i + 1

\* The local port ForwardResource starts from for port index i.
requestedLocalPort(r, portMapping, i) ==
  IF i \in DOMAIN portMapping THEN portMapping[i]
  ELSE IF r.Type \in {ServiceResource, DeploymentResource, StatefulSetResource} THEN 0
  ELSE r.Ports[i]

\* One iteration of the loop of ForwardResource.
forwardPort(r, portMapping, i) ==
  LET localPort == requestedLocalPort(r, portMapping, i)
      portValue == r.Ports[i]
  IN IF r.Type = ServiceResource THEN forwardServicePort(r, i, localPort, portValue)
     ELSE IF r.Type \in {DeploymentResource, StatefulSetResource}
       THEN forwardDeploymentPort(r, i, localPort)
     ELSE allocateAndStart(r, localPort, portValue, "")

\* The forwarders a loop "for fw in m.Forwarders { fw.Stop(); ReleasePort }"
\* over the sessions in S gets through: all of S, or those before the first
\* one whose StopChannel is already closed, where fw.Stop() panics.
FirstClosed(S) ==
  IF \E f \in S : PortForwarderStop(StopChannel[f]).panics
    THEN CHOOSE f \in S : /\ PortForwarderStop(StopChannel[f]).panics
                          /\ \A g \in S : g < f => ~PortForwarderStop(StopChannel[g]).panics
    ELSE 0

StoppedBy(S) == IF FirstClosed(S) = 0 THEN S ELSE { f \in S : f < FirstClosed(S) }

\* The sessions stopResourceForwarders(resource) selects.
SameResource(r) ==
  { f \in Registered : /\ Resources[Forwarders[f].Resource].Name = r.Name
                       /\ Resources[Forwarders[f].Resource].Namespace = r.Namespace }

\* The sessions Manager.Stop selects.
AllForwarders == Registered

\* The table after ReleasePort(fw.LocalPort) for every session fw of S.
RECURSIVE ReleasePorts(_, _)
ReleasePorts(alloc, S) ==
  IF S = {} THEN alloc
  ELSE LET f == CHOOSE x \in S : TRUE
       IN ReleasePorts(ReleasePort(alloc, Forwarders[f].LocalPort), S \ {f})

\* State after the stop-and-release loop over S, starting from table alloc.
StopAndRelease(S, alloc, site) ==
  LET done == StoppedBy(S)
  IN /\ StopChannel' = [f \in SessionIds |->
                          IF f \in done THEN PortForwarderStop(StopChannel[f]).channel
                          ELSE StopChannel[f]]
     /\ allocatedPorts' = ReleasePorts(alloc, done)
     /\ releases' = [f \in SessionIds |-> IF f \in done THEN releases[f] + 1 ELSE releases[f]]
     /\ panicSite' = IF FirstClosed(S) # 0 THEN site ELSE panicSite

\* ------------------------------------------------------------------- Init
\* NewManager: no forwarders, an empty allocation table, a live context.
Init ==
  /\ allocatedPorts = {}
  /\ Forwarders = <<>>
  /\ StopChannel = [f \in SessionIds |-> "open"]
  /\ ReadyChannel = [f \in SessionIds |-> "open"]
  /\ ErrorChannel = [f \in SessionIds |-> 0]
  /\ RetryAttempts = [f \in SessionIds |-> 0]
  /\ connPc = [f \in SessionIds |-> "none"]
  /\ backoff = [f \in SessionIds |-> InitialBackoff]
  /\ monPc = [f \in SessionIds |-> "none"]
  /\ ForwardWait = 0
  /\ ctxDone = FALSE
  /\ call = NoCall
  /\ lastReturn = NoReturn
  /\ panicSite = "none"
  /\ waitReturned = FALSE
  /\ releases = [f \in SessionIds |-> 0]
  /\ attempts = [f \in SessionIds |-> 0]
  /\ failures = [f \in SessionIds |-> 0]
  /\ errorsSent = [f \in SessionIds |-> 0]
  /\ waits = [f \in SessionIds |-> <<>>]
  /\ reqAutoRetry = [f \in SessionIds |-> TRUE]
  /\ allocLog = <<>>
  /\ resolveCall = NoResolve
  /\ forwardCall = NoForward
  /\ mu = 0
  /\ tasks = [t \in Tasks |-> IdleTask]
  /\ runCall = NoRun
  /\ configCall = NoConfig

\* The process has neither panicked nor exited.
Running == panicSite = "none" /\ ~waitReturned

\* Groups of variables, for the UNCHANGED clauses.
callVars == << call, lastReturn >>
envVars == << ctxDone, waitReturned >>
chanVars == << StopChannel, ReadyChannel, ErrorChannel >>
connVars == << RetryAttempts, connPc, backoff >>
histVars == << attempts, failures, errorsSent, waits >>
\* Written by no operation of the Manager or of its goroutines: the Manager asks
\* for AutoRetry: true in every request and logs no allocator call.
directVars == << reqAutoRetry, allocLog, resolveCall, forwardCall, mu, tasks, runCall, configCall >>

\* -------------------------------------------------------- ForwardResource
\* One iteration of ForwardResource for port index i of resource rid, the
\* call having started the sessions in started so far. On success the new
\* forwarder is appended and its monitor started (startForwarderMonitor: Add(1)
\* and the goroutine); the call returns nil after the last port. On failure
\* the call returns the error, after the rollback when StartPortForward failed.
ForwardResourceStep(rid, portMapping, i, started) ==
  LET r == Resources[rid]
      n == Len(Forwarders) + 1
  IN \E o \in forwardPort(r, portMapping, i) :
       IF o.err = ""
         THEN /\ Forwarders' = Append(Forwarders,
                   [Resource |-> rid, LocalPort |-> o.LocalPort, RemotePort |-> o.RemotePort,
                    PodName |-> o.PodName, AutoRetry |-> AutoRetryOf(reqAutoRetry[n])])
              /\ allocatedPorts' = o.alloc
              /\ connPc' = [connPc EXCEPT ![n] = "new"]
              /\ monPc' = [monPc EXCEPT ![n] = "wait"]
              /\ ForwardWait' = ForwardWait + 1
              /\ IF i = Len(r.Ports)
                   THEN /\ call' = NoCall
                        /\ lastReturn' = [op |-> "ForwardResource", err |-> "", index |-> 0,
                                          started |-> started \cup {n}]
                   ELSE /\ call' = [active |-> TRUE, rid |-> rid, portMapping |-> portMapping,
                                    index |-> nextIndex(i), started |-> started \cup {n}]
                        /\ lastReturn' = NoReturn
              /\ UNCHANGED << envVars, chanVars, RetryAttempts, backoff, panicSite,
                              releases, histVars, directVars >>
       ELSE IF o.rollback
         THEN /\ StopAndRelease(SameResource(r), ReleasePort(o.alloc, o.LocalPort), "rollback")
              /\ call' = NoCall
              /\ lastReturn' = IF FirstClosed(SameResource(r)) # 0 THEN NoReturn
                               ELSE [op |-> "ForwardResource", err |-> o.err, index |-> i,
                                     started |-> started]
              /\ UNCHANGED << Forwarders, directVars, ForwardWait, envVars, ReadyChannel, ErrorChannel,
                              connVars, monPc, histVars >>
         ELSE /\ allocatedPorts' = o.alloc
              /\ call' = NoCall
              /\ lastReturn' = [op |-> "ForwardResource", err |-> o.err, index |-> i,
                                started |-> started]
              /\ UNCHANGED << Forwarders, directVars, ForwardWait, envVars, chanVars, connVars, monPc,
                              panicSite, releases, histVars >>

\* ForwardResource(resource, portMapping): takes Manager.mutex and runs the
\* first iteration; a resource without ports returns nil at once.
ForwardResource(rid, portMapping) ==
  /\ Running
  /\ ~call.active
  /\ Len(Forwarders) + Len(Resources[rid].Ports) <= MaxSessions
  /\ IF Len(Resources[rid].Ports) = 0
       THEN /\ lastReturn' = [op |-> "ForwardResource", err |-> "", index |-> 0,
                              started |-> {}]
            /\ UNCHANGED << allocatedPorts, Forwarders, directVars, ForwardWait, call, envVars, chanVars,
                            connVars, monPc, panicSite, releases, histVars >>
       ELSE ForwardResourceStep(rid, portMapping, 1, {})

\* The next iteration of the ForwardResource call in progress.
ForwardResourceNext ==
  /\ Running
  /\ call.active
  /\ ForwardResourceStep(call.rid, call.portMapping, call.index, call.started)

\* ------------------------------------------------------------ Manager.Stop
\* Stop takes Manager.mutex, stops every forwarder and releases its port.
ManagerStop ==
  /\ Running
  /\ ~call.active
  /\ StopAndRelease(AllForwarders, allocatedPorts, "Manager.Stop")
  /\ lastReturn' = IF FirstClosed(AllForwarders) = 0 THEN [op |-> "Stop"] ELSE lastReturn
  /\ UNCHANGED << Forwarders, directVars, ForwardWait, call, envVars, ReadyChannel, ErrorChannel,
                  connVars, monPc, histVars >>

\* The caller's context is cancelled.
CancelContext ==
  /\ Running
  /\ ~ctxDone
  /\ ctxDone' = TRUE
  /\ UNCHANGED << allocatedPorts, Forwarders, directVars, ForwardWait, callVars, waitReturned, chanVars,
                  connVars, monPc, panicSite, releases, histVars >>

\* WaitForCompletion returns when the ForwardWait counter is zero; Run calls
\* it after its ForwardResource calls and returns after it.
WaitForCompletion ==
  /\ Running
  /\ ~call.active
  /\ ForwardWait = 0
  /\ waitReturned' = TRUE
  /\ UNCHANGED << allocatedPorts, Forwarders, directVars, ForwardWait, callVars, ctxDone, chanVars,
                  connVars, monPc, panicSite, releases, histVars >>

\* --------------------------------------- the goroutine of StartPortForward
\* What no step of a connect goroutine writes.
notConnVars == << allocatedPorts, Forwarders, directVars, ForwardWait, callVars, envVars, monPc, releases >>

\* The decision after ForwardPorts returned an error: TRUE to give up.
\* A give-up test that allows one retry more.
GivesUpLate(autoRetry, retryCount) == ~autoRetry \/ retryCount > MaxRetries

\* A give-up test that allows one retry less.
GivesUpEarly(autoRetry, retryCount) == ~autoRetry \/ retryCount >= MaxRetries - 1

GivesUp(autoRetry, retryCount) == ~autoRetry \/ retryCount >= MaxRetries

\* A send after which the goroutine goes round the loop again.
SendErrorAndRetry(f) ==
  /\ ErrorChannel[f] < 1
  /\ ErrorChannel' = [ErrorChannel EXCEPT ![f] = ErrorChannel[f] + 1]
  /\ errorsSent' = [errorsSent EXCEPT ![f] = errorsSent[f] + 1]
  /\ connPc' = [connPc EXCEPT ![f] = "backoff"]

\* "errorChannel <- err" on the channel of capacity 1, then on to close(stopChannel).
SendError(f) ==
  /\ ErrorChannel[f] < 1
  /\ ErrorChannel' = [ErrorChannel EXCEPT ![f] = ErrorChannel[f] + 1]
  /\ errorsSent' = [errorsSent EXCEPT ![f] = errorsSent[f] + 1]
  /\ connPc' = [connPc EXCEPT ![f] = "closing"]

\* A loop top that does not look at StopChannel.
LoopTopIgnoresStop(f) ==
  /\ connPc' = [connPc EXCEPT ![f] = "fwd"]
  /\ attempts' = [attempts EXCEPT ![f] = attempts[f] + 1]

\* The top of the loop: return when StopChannel is closed, else call ForwardPorts.
LoopTop(f) ==
  IF StopChannel[f] = "closed"
    THEN /\ connPc' = [connPc EXCEPT ![f] = "done"]
         /\ UNCHANGED attempts
    ELSE /\ connPc' = [connPc EXCEPT ![f] = "fwd"]
         /\ attempts' = [attempts EXCEPT ![f] = attempts[f] + 1]

\* The goroutine starts, portforward.New succeeds (it fails only on a port
\* pair it cannot parse, and every request here carries ports in 1..MaxPort),
\* the loop is entered.
ConnStart(f) ==
  /\ Running
  /\ f \in Registered
  /\ connPc[f] = "new"
  /\ LoopTop(f)
  /\ UNCHANGED << notConnVars, chanVars, RetryAttempts, backoff, panicSite, failures,
                  errorsSent, waits >>

\* Inside ForwardPorts: the tunnel is dialled, the local port is bound and the
\* provider closes the ready channel it was given; closing it a second time
\* (the same readyChannel is passed to every portforward.New) panics.
TunnelListens(f) ==
  /\ Running
  /\ f \in Registered
  /\ connPc[f] = "fwd"
  /\ Forwarders[f].LocalPort \notin BoundPorts
  /\ IF ReadyChannel[f] = "open"
       THEN /\ ReadyChannel' = [ReadyChannel EXCEPT ![f] = "closed"]
            /\ connPc' = [connPc EXCEPT ![f] = "serving"]
            /\ UNCHANGED panicSite
       ELSE /\ panicSite' = "ForwardPorts"
            /\ UNCHANGED << ReadyChannel, connPc >>
  /\ UNCHANGED << notConnVars, StopChannel, ErrorChannel, RetryAttempts, backoff, histVars >>

\* ForwardPorts returns nil: the tunnel was listening and StopChannel was
\* closed, or the provider lost the connection and reports no error.
TunnelReturnsNil(f) ==
  /\ Running
  /\ f \in Registered
  /\ connPc[f] = "serving"
  /\ connPc' = [connPc EXCEPT ![f] = "done"]
  /\ UNCHANGED << notConnVars, chanVars, RetryAttempts, backoff, panicSite, histVars >>

\* The environment lets the tunnel of f fail.
MayFail(f) ==
  \/ failures[f] > 0
  \/ Cardinality({ g \in Registered : failures[g] > 0 }) < MaxFailingSessions

\* ForwardPorts returns an error: give up (send the error) or go to the backoff wait.
TunnelFails(f) ==
  /\ Running
  /\ f \in Registered
  /\ connPc[f] \in {"fwd", "serving"}
  /\ MayFail(f)
  /\ failures' = [failures EXCEPT ![f] = failures[f] + 1]
  /\ IF GivesUp(Forwarders[f].AutoRetry, RetryAttempts[f])
       THEN SendError(f)
       ELSE /\ connPc' = [connPc EXCEPT ![f] = "backoff"]
            /\ UNCHANGED << ErrorChannel, errorsSent >>
  /\ UNCHANGED << notConnVars, StopChannel, ReadyChannel, RetryAttempts, backoff, panicSite,
                  attempts, waits >>

\* close(stopChannel) after the error was sent, then return.
ConnCloseStop(f) ==
  /\ Running
  /\ f \in Registered
  /\ connPc[f] = "closing"
  /\ IF PortForwarderStop(StopChannel[f]).panics
       THEN /\ panicSite' = "StartPortForward"
            /\ UNCHANGED << StopChannel, connPc >>
       ELSE /\ StopChannel' = [StopChannel EXCEPT ![f] = "closed"]
            /\ connPc' = [connPc EXCEPT ![f] = "done"]
            /\ UNCHANGED panicSite
  /\ UNCHANGED << notConnVars, ReadyChannel, ErrorChannel, RetryAttempts, backoff, histVars >>

\* The backoff select takes "case <-stopChannel".
BackoffStopped(f) ==
  /\ Running
  /\ f \in Registered
  /\ connPc[f] = "backoff"
  /\ StopChannel[f] = "closed"
  /\ connPc' = [connPc EXCEPT ![f] = "done"]
  /\ UNCHANGED << notConnVars, chanVars, RetryAttempts, backoff, panicSite, histVars >>

\* The backoff select takes "case <-time.After(backoff)": a new provider is
\* made, the retry is counted, the backoff doubled, and the loop goes round.
BackoffElapsed(f) ==
  /\ Running
  /\ f \in Registered
  /\ connPc[f] = "backoff"
  /\ waits' = [waits EXCEPT ![f] = Append(waits[f], backoff[f])]
  /\ RetryAttempts' = [RetryAttempts EXCEPT ![f] = RetryAttempts[f] + 1]
  /\ backoff' = [backoff EXCEPT ![f] = NextBackoff(backoff[f])]
  /\ LoopTop(f)
  /\ UNCHANGED << notConnVars, chanVars, panicSite, failures, errorsSent >>

\* ------------------------------------ the goroutine of startForwarderMonitor
\* A monitor that returns without ForwardWait.Done().
MonitorReleaseUncounted(f) ==
  /\ allocatedPorts' = ReleasePort(allocatedPorts, Forwarders[f].LocalPort)
  /\ releases' = [releases EXCEPT ![f] = releases[f] + 1]
  /\ monPc' = [monPc EXCEPT ![f] = "done"]
  /\ ForwardWait' = ForwardWait

\* The release every terminating branch of the monitor performs, then
\* ForwardWait.Done().
MonitorRelease(f) ==
  /\ allocatedPorts' = ReleasePort(allocatedPorts, Forwarders[f].LocalPort)
  /\ releases' = [releases EXCEPT ![f] = releases[f] + 1]
  /\ monPc' = [monPc EXCEPT ![f] = "done"]
  /\ ForwardWait' = ForwardWait - 1

\* "case <-pf.ReadyChannel" of the outer select.
MonitorReady(f) ==
  /\ Running
  /\ f \in Registered
  /\ monPc[f] = "wait"
  /\ ReadyChannel[f] = "closed"
  /\ monPc' = [monPc EXCEPT ![f] = "ready"]
  /\ UNCHANGED << allocatedPorts, Forwarders, directVars, ForwardWait, callVars, envVars, chanVars,
                  connVars, panicSite, releases, histVars >>

\* "case err := <-pf.ErrorChannel" of either select.
MonitorError(f) ==
  /\ Running
  /\ f \in Registered
  /\ monPc[f] \in {"wait", "ready"}
  /\ ErrorChannel[f] > 0
  /\ ErrorChannel' = [ErrorChannel EXCEPT ![f] = ErrorChannel[f] - 1]
  /\ MonitorRelease(f)
  /\ UNCHANGED << Forwarders, directVars, callVars, envVars, StopChannel, ReadyChannel, connVars,
                  panicSite, histVars >>

\* "case <-m.Context.Done()" of either select.
MonitorContextDone(f) ==
  /\ Running
  /\ f \in Registered
  /\ monPc[f] \in {"wait", "ready"}
  /\ ctxDone
  /\ MonitorRelease(f)
  /\ UNCHANGED << Forwarders, directVars, callVars, envVars, chanVars, connVars, panicSite, histVars >>

\* ------------------------------------------------------------ specification
ConnStep(f) ==
  \/ ConnStart(f)
  \/ TunnelListens(f)
  \/ TunnelReturnsNil(f)
  \/ TunnelFails(f)
  \/ ConnCloseStop(f)
  \/ BackoffStopped(f)
  \/ BackoffElapsed(f)

MonitorStep(f) ==
  \/ MonitorReady(f)
  \/ MonitorError(f)
  \/ MonitorContextDone(f)

Next ==
  \/ \E rid \in ResourceIds : \E portMapping \in PortMappings(Resources[rid]) :
       ForwardResource(rid, portMapping)
  \/ ForwardResourceNext
  \/ ManagerStop
  \/ CancelContext
  \/ WaitForCompletion
  \/ \E f \in SessionIds : ConnStep(f)
  \/ \E f \in SessionIds : MonitorStep(f)

Spec == Init /\ [][Next]_vars

\* What a connect goroutine does by itself once it is scheduled: it leaves
\* the selects, a dial ends one way or the other, and ForwardPorts returns once
\* StopChannel is closed. A tunnel that serves may serve forever.
ConnProgress(f) ==
  \/ ConnStart(f)
  \/ ConnCloseStop(f)
  \/ BackoffStopped(f)
  \/ BackoffElapsed(f)
  \/ (connPc[f] = "fwd" /\ (TunnelListens(f) \/ TunnelFails(f)))
  \/ (StopChannel[f] = "closed" /\ TunnelReturnsNil(f))

\* Goroutines and the caller blocked in WaitForCompletion are scheduled
\* fairly; calls of the Manager and cancellation are up to the caller.
FairSpec ==
  /\ Spec
  /\ \A f \in SessionIds : WF_vars(ConnProgress(f)) /\ WF_vars(MonitorStep(f))
  /\ WF_vars(WaitForCompletion)

\* ------------------------------------- StartPortForward called directly
\* A caller of the package starts one session itself, StartPortForward(req)
\* with req.AutoRetry of its choice for a pod, and may call Stop() on the
\* PortForwarder it gets; there is no Manager and no monitor goroutine.
InitSession ==
  \E requested \in BOOLEAN : \E localPort \in PortNums :
     /\ "" \in StartPortForwardErrors(PodResource, "")
     /\ Forwarders = << [Resource |-> 1, LocalPort |-> localPort, RemotePort |-> 1,
                         PodName |-> "", AutoRetry |-> AutoRetryOf(requested)] >>
     /\ reqAutoRetry = [f \in SessionIds |-> IF f = 1 THEN requested ELSE TRUE]
     /\ connPc = [f \in SessionIds |-> IF f = 1 THEN "new" ELSE "none"]
     /\ allocatedPorts = {}
     /\ StopChannel = [f \in SessionIds |-> "open"]
     /\ ReadyChannel = [f \in SessionIds |-> "open"]
     /\ ErrorChannel = [f \in SessionIds |-> 0]
     /\ RetryAttempts = [f \in SessionIds |-> 0]
     /\ backoff = [f \in SessionIds |-> InitialBackoff]
     /\ monPc = [f \in SessionIds |-> "none"]
     /\ ForwardWait = 0
     /\ ctxDone = FALSE
     /\ call = NoCall
     /\ lastReturn = NoReturn
     /\ panicSite = "none"
     /\ waitReturned = FALSE
     /\ releases = [f \in SessionIds |-> 0]
     /\ attempts = [f \in SessionIds |-> 0]
     /\ failures = [f \in SessionIds |-> 0]
     /\ errorsSent = [f \in SessionIds |-> 0]
     /\ waits = [f \in SessionIds |-> <<>>]
     /\ allocLog = <<>>
     /\ resolveCall = NoResolve
     /\ forwardCall = NoForward
     /\ mu = 0
     /\ tasks = [t \in Tasks |-> IdleTask]
     /\ runCall = NoRun
     /\ configCall = NoConfig

\* The caller calls pf.Stop().
ForwarderStop(f) ==
  /\ Running
  /\ f \in Registered
  /\ IF PortForwarderStop(StopChannel[f]).panics
       THEN /\ panicSite' = "PortForwarder.Stop"
            /\ UNCHANGED StopChannel
       ELSE /\ StopChannel' = [StopChannel EXCEPT ![f] = PortForwarderStop(StopChannel[f]).channel]
            /\ UNCHANGED panicSite
  /\ UNCHANGED << notConnVars, ReadyChannel, ErrorChannel, connVars, histVars >>

SessionNext ==
  \/ \E f \in SessionIds : ConnStep(f)
  \/ \E f \in SessionIds : ForwarderStop(f)

SessionSpec == InitSession /\ [][SessionNext]_vars

\* ------------------------------------- the PortAllocator called directly
\* A caller of the package makes calls on one PortAllocator (NewPortAllocator:
\* an empty table) and probes ports with IsPortAvailable; every call is logged
\* with the table it found.
notAllocVars == << Forwarders, configCall, runCall, tasks, mu, forwardCall, reqAutoRetry, resolveCall, ForwardWait, callVars, envVars, chanVars,
                   connVars, monPc, panicSite, releases, histVars >>

AllocatePortCall(requestedPort) ==
  /\ Len(allocLog) < MaxAllocCalls
  /\ \E o \in AllocatePort(allocatedPorts, requestedPort) :
        /\ allocatedPorts' = o.alloc
        /\ allocLog' = Append(allocLog,
              [op |-> "AllocatePort", port |-> requestedPort, err |-> o.err,
               result |-> o.port, before |-> allocatedPorts])
  /\ UNCHANGED notAllocVars

ReleasePortCall(port) ==
  /\ Len(allocLog) < MaxAllocCalls
  /\ allocatedPorts' = ReleasePort(allocatedPorts, port)
  /\ allocLog' = Append(allocLog,
        [op |-> "ReleasePort", port |-> port, err |-> "", result |-> 0,
         before |-> allocatedPorts])
  /\ UNCHANGED notAllocVars

\* listenOk is what net.Listen on the port does at that moment.
IsPortAvailableCall(port) ==
  /\ Len(allocLog) < MaxAllocCalls
  /\ \E listenOk \in ListenOutcomes(port) :
        allocLog' = Append(allocLog,
           [op |-> "IsPortAvailable", port |-> port, listenOk |-> listenOk,
            available |-> IsPortAvailable(listenOk), before |-> allocatedPorts])
  /\ UNCHANGED << allocatedPorts, notAllocVars >>

AllocNext ==
  \/ \E requestedPort \in 0..MaxPort : AllocatePortCall(requestedPort)
  \/ \E port \in PortNums : ReleasePortCall(port)
  \/ \E port \in PortNums : IsPortAvailableCall(port)

AllocSpec == Init /\ [][AllocNext]_vars

\* The table after the first n logged calls.
TableAfter(n) == IF n < Len(allocLog) THEN allocLog[n + 1].before ELSE allocatedPorts

\* ------------------------------------------- resolveTargetPort by itself
\* The arguments resolveTargetPort is applied to: every kind of targetPort
\* spec, and pods with up to MaxPodPorts named ports.
MaxPodPorts == 2

PortNames == {"http", "HTTP", "metrics"}

TargetSpecs ==
  {NilSpec} \cup { IntSpec(n) : n \in -1..MaxPort }
            \cup { StrSpec(name) : name \in PortNames \cup {"missing"} }
            \cup { [Type |-> "other", IntVal |-> 0, StrVal |-> ""] }

PodPorts == [Name : PortNames, ContainerPort : PortNums]

Pods ==
  { [Name |-> "pod-1", Namespace |-> "ns", Ports |-> ports]
    : ports \in UNION { [1..n -> PodPorts] : n \in 0..MaxPodPorts } }

notResolveVars == << allocatedPorts, allocLog, configCall, runCall, tasks, mu, forwardCall, Forwarders, reqAutoRetry, ForwardWait,
                     callVars, envVars, chanVars, connVars, monPc, panicSite, releases,
                     histVars >>

ResolveTargetPortCall(targetSpec, servicePort, pod) ==
  /\ resolveCall' = [called |-> TRUE, targetSpec |-> targetSpec, servicePort |-> servicePort,
                     pod |-> pod, out |-> resolveTargetPort(targetSpec, servicePort, pod)]
  /\ UNCHANGED << notResolveVars >>

ResolveNext ==
  \E targetSpec \in TargetSpecs : \E servicePort \in PortNums : \E pod \in Pods :
     ResolveTargetPortCall(targetSpec, servicePort, pod)

ResolveSpec == Init /\ [][ResolveNext]_vars

-----------------------------------------------------------------------------
\* The forward*Port functions applied by themselves to what the cluster lists.

MaxPodList == 2

PodNoPorts == [Name |-> "pod-0", Namespace |-> "ns", Ports |-> <<>>]

PodOnePort == [Name |-> "pod-2", Namespace |-> "ns",
               Ports |-> << [Name |-> "http", ContainerPort |-> 1] >>]

\* What listing the pods of a selector gives: an error, or the matching pods
\* in the order the API server lists them.
PodListings ==
  { [err |-> TRUE, items |-> <<>>] } \cup
  { [err |-> FALSE, items |-> items]
    : items \in UNION { [1..n -> {PodNoPorts, PodOnePort, PodWithPorts}] : n \in 0..MaxPodList } }

HasPorts(pod) == Len(pod.Ports) > 0

\* GetPodsForDeployment; GetPodsForService and GetPodsForStatefulSet end the
\* same way: an error for a failed or empty listing, else the pods with ports.
GetPodsForDeployment(listing) ==
  IF listing.err \/ listing.items = <<>>
    THEN [err |-> TRUE, pods |-> <<>>]
    ELSE [err |-> FALSE, pods |-> SelectSeq(listing.items, HasPorts)]

\* The resources the functions are applied to: the pod and the service of the
\* catalogue, and a deployment and a statefulset whose own port list differs
\* from the container ports of every pod.
ForwardTargets ==
  { Resources[1], Resources[2] } \cup
  { [Name |-> "d", Namespace |-> "ns", Type |-> t, Ports |-> <<2, 1>>, TargetPortSpecs |-> <<>>]
    : t \in {DeploymentResource, StatefulSetResource} }

notForwardVars == << allocatedPorts, allocLog, configCall, runCall, tasks, mu, resolveCall, Forwarders, reqAutoRetry, ForwardWait,
                     callVars, envVars, chanVars, connVars, monPc, panicSite, releases,
                     histVars >>

\* One arm of the switch of ForwardResource for port index portIndex, given
\* the local port the loop starts from: forwardServicePort,
\* forwardDeploymentPort, forwardStatefulSetPort or the pod arm.
ForwardPortCall(r, portIndex, localPort, listing) ==
  /\ forwardCall' =
       [called |-> TRUE, r |-> r, portIndex |-> portIndex, localPort |-> localPort,
        listing |-> listing,
        out |-> IF r.Type = ServiceResource
                  THEN forwardServicePortOn(GetPodsForDeployment(listing), r, portIndex,
                                            localPort, r.Ports[portIndex])
                ELSE IF r.Type \in {DeploymentResource, StatefulSetResource}
                  THEN forwardDeploymentPortOn(GetPodsForDeployment(listing), r, portIndex,
                                               localPort)
                ELSE allocateAndStart(r, localPort, r.Ports[portIndex], "")]
  /\ UNCHANGED notForwardVars

ForwardNext ==
  \E r \in ForwardTargets : \E portIndex \in 1..Len(r.Ports) : \E localPort \in 0..MaxPort :
    \E listing \in PodListings : ForwardPortCall(r, portIndex, localPort, listing)

ForwardSpec == Init /\ [][ForwardNext]_vars

-----------------------------------------------------------------------------
\* The PortAllocator called by concurrent tasks, one statement at a time.

notLockVars == << allocLog, configCall, runCall, resolveCall, forwardCall, Forwarders, reqAutoRetry, ForwardWait,
                  callVars, envVars, chanVars, connVars, monPc, panicSite, releases,
                  histVars >>

\* A task enters AllocatePort(requestedPort): reserveSpecificPort starts with
\* pa.mu.Lock(), findAvailableEphemeralPort with net.Listen on ":0".
TaskAllocatePort(t, requestedPort) ==
  /\ tasks[t].pc = "idle"
  /\ tasks' = [tasks EXCEPT ![t] =
                 [pc |-> IF requestedPort > 0 THEN "reserve.lock" ELSE "ephemeral.listen",
                  port |-> requestedPort]]
  /\ UNCHANGED << allocatedPorts, mu, notLockVars >>

\* A task enters ReleasePort(port).
TaskReleasePort(t, port) ==
  /\ tasks[t].pc = "idle"
  /\ tasks' = [tasks EXCEPT ![t] = [pc |-> "release.lock", port |-> port]]
  /\ UNCHANGED << allocatedPorts, mu, notLockVars >>

\* reserveSpecificPort: pa.mu.Lock() succeeds and the table is read; an
\* allocated port returns the error (the deferred Unlock runs), any other
\* goes on to net.Listen.
ReserveLock(t) ==
  /\ tasks[t].pc = "reserve.lock"
  /\ mu = 0
  /\ IF tasks[t].port \in allocatedPorts
       THEN /\ tasks' = [tasks EXCEPT ![t] = IdleTask]
            /\ UNCHANGED mu
       ELSE /\ tasks' = [tasks EXCEPT ![t].pc = "reserve.listen"]
            /\ mu' = t
  /\ UNCHANGED << allocatedPorts, notLockVars >>

\* reserveSpecificPort: net.Listen returns; on success the listener is
\* closed and the port marked; the deferred Unlock runs.
ReserveListenReturns(t) ==
  /\ tasks[t].pc = "reserve.listen"
  /\ \E ok \in ListenOutcomes(tasks[t].port) :
        allocatedPorts' = IF ok THEN allocatedPorts \cup {tasks[t].port} ELSE allocatedPorts
  /\ mu' = 0
  /\ tasks' = [tasks EXCEPT ![t] = IdleTask]
  /\ UNCHANGED notLockVars

\* findAvailableEphemeralPort: net.Listen on ":0" returns; an error returns,
\* a port goes on to pa.mu.Lock().
EphemeralListenReturns(t) ==
  /\ tasks[t].pc = "ephemeral.listen"
  /\ \E port \in ListenEphemeralOutcomes :
        tasks' = [tasks EXCEPT ![t] =
                    IF port = 0 THEN IdleTask ELSE [pc |-> "ephemeral.lock", port |-> port]]
  /\ UNCHANGED << allocatedPorts, mu, notLockVars >>

\* findAvailableEphemeralPort: pa.mu.Lock(), the port is marked, Unlock.
EphemeralLock(t) ==
  /\ tasks[t].pc = "ephemeral.lock"
  /\ mu = 0
  /\ allocatedPorts' = allocatedPorts \cup {tasks[t].port}
  /\ tasks' = [tasks EXCEPT ![t] = IdleTask]
  /\ UNCHANGED << mu, notLockVars >>

\* ReleasePort: pa.mu.Lock(), delete, Unlock.
ReleaseLock(t) ==
  /\ tasks[t].pc = "release.lock"
  /\ mu = 0
  /\ allocatedPorts' = ReleasePort(allocatedPorts, tasks[t].port)
  /\ tasks' = [tasks EXCEPT ![t] = IdleTask]
  /\ UNCHANGED << mu, notLockVars >>

LockNext ==
  \E t \in Tasks :
     \/ \E requestedPort \in 0..MaxPort : TaskAllocatePort(t, requestedPort)
     \/ \E port \in 1..MaxPort : TaskReleasePort(t, port)
     \/ ReserveLock(t)
     \/ ReserveListenReturns(t)
     \/ EphemeralListenReturns(t)
     \/ EphemeralLock(t)
     \/ ReleaseLock(t)

LockSpec == Init /\ [][LockNext]_vars

-----------------------------------------------------------------------------
\* Run, the body of the command, as a function of its flags and of what the
\* functions it calls return.

notRunVars == << allocatedPorts, allocLog, configCall, tasks, mu, resolveCall, forwardCall, Forwarders,
                 reqAutoRetry, ForwardWait, callVars, envVars, chanVars, connVars, monPc,
                 panicSite, releases, histVars >>

\* The values of a string flag: not given, or a file name.
FileNames == {"", "pfw.yaml"}

\* A count that looks at --pods alone.
selectedModesPodsOnly(usePods, useDeployments, useStatefulSets) ==
  IF usePods THEN 1 ELSE 0

\* selectedModes after the three increments.
selectedModes(usePods, useDeployments, useStatefulSets) ==
  (IF usePods THEN 1 ELSE 0) + (IF useDeployments THEN 1 ELSE 0)
    + (IF useStatefulSets THEN 1 ELSE 0)

\* Run: the error it returns, whether NewManager was called, and which of
\* RunWithConfigFile, GenerateConfigFile and RunInteractive it went into;
\* stepErr says that this function returned an error.
Run(clientErr, usePods, useDeployments, useStatefulSets, configFile, generateConfig, stepErr) ==
  IF clientErr
    THEN [err |-> "failed to create Kubernetes client", manager |-> FALSE, mode |-> "none",
          waited |-> FALSE]
  ELSE IF configFile # "" /\ generateConfig
    THEN [err |-> "cannot use both --file and --generate-config flags together",
          manager |-> FALSE, mode |-> "none", waited |-> FALSE]
  ELSE IF selectedModes(usePods, useDeployments, useStatefulSets) > 1
    THEN [err |-> "only one of --pods, --deployments, or --statefulsets can be used at a time",
          manager |-> FALSE, mode |-> "none", waited |-> FALSE]
  ELSE IF configFile # ""
    THEN [err |-> IF stepErr THEN "RunWithConfigFile" ELSE "", manager |-> TRUE,
          mode |-> "file", waited |-> ~stepErr]
  ELSE IF generateConfig
    THEN [err |-> IF stepErr THEN "GenerateConfigFile" ELSE "", manager |-> TRUE,
          mode |-> "generate-config", waited |-> FALSE]
  ELSE [err |-> IF stepErr THEN "RunInteractive" ELSE "", manager |-> TRUE,
        mode |-> "interactive", waited |-> ~stepErr]

RunCall(clientErr, usePods, useDeployments, useStatefulSets, configFile, generateConfig, outputFile, stepErr) ==
  /\ runCall' = [called |-> TRUE, clientErr |-> clientErr, usePods |-> usePods,
                 useDeployments |-> useDeployments, useStatefulSets |-> useStatefulSets,
                 configFile |-> configFile, generateConfig |-> generateConfig,
                 outputFile |-> outputFile, stepErr |-> stepErr,
                 out |-> Run(clientErr, usePods, useDeployments, useStatefulSets, configFile,
                             generateConfig, stepErr)]
  /\ UNCHANGED notRunVars

RunNext ==
  \E clientErr \in BOOLEAN, usePods \in BOOLEAN, useDeployments \in BOOLEAN,
     useStatefulSets \in BOOLEAN, configFile \in FileNames, generateConfig \in BOOLEAN,
     outputFile \in FileNames, stepErr \in BOOLEAN :
       RunCall(clientErr, usePods, useDeployments, useStatefulSets, configFile, generateConfig,
               outputFile, stepErr)

RunSpec == Init /\ [][RunNext]_vars

-----------------------------------------------------------------------------
\* The configuration file: GenerateConfig, WriteConfig, LoadConfig and
\* ConvertEntryToResource. Indices are those of the Go slices plus one.

notConfigVars == << allocatedPorts, allocLog, runCall, tasks, mu, resolveCall, forwardCall, Forwarders, reqAutoRetry, ForwardWait, callVars, envVars, chanVars, connVars, monPc, panicSite, releases, histVars >>

\* The port lists of the resources a configuration is generated for.
ConfigPortLists == { << 80 >>, << 443 >>, << 80, 2 >>, << 8080, 80 >> }

\* The container ports a service port resolves to.
ResolvedValues == {2, 8080}

\* The decimal digits of n >= 0, as yaml.Marshal writes an int32.
RECURSIVE DigitsOf(_)
DigitsOf(n) ==
  IF n < 10 THEN << Digits[n + 1] >>
  ELSE Append(DigitsOf(n \div 10), Digits[(n % 10) + 1])

\* The number yaml.Unmarshal reads from a sequence of decimal digits.
RECURSIVE ParseDigits(_)
ParseDigits(ds) ==
  IF ds = << >> THEN 0
  ELSE 10 * ParseDigits(SubSeq(ds, 1, Len(ds) - 1))
         + (CHOOSE d \in 0..9 : Digits[d + 1] = ds[Len(ds)])

\* The resource type as GenerateConfig writes it.
EntryType(resource) ==
  IF resource.Type \in {ServiceResource, PodResource, DeploymentResource, StatefulSetResource}
    THEN resource.Type
    ELSE ""

\* A remotePort that is always the port of the resource's own list.
targetPortOfListed(resource, resolvedPortMap, i) == resource.Ports[i]

\* The remotePort GenerateConfig writes for port i: the resolved container
\* port of a service when one is given, else the port of the resource.
targetPortOf(resource, resolvedPortMap, i) ==
  IF resource.Type = ServiceResource /\ i \in DOMAIN resolvedPortMap
    THEN resolvedPortMap[i]
    ELSE resource.Ports[i]

\* GenerateConfig; portMappings and resolvedPorts are keyed by resource name.
GenerateConfig(resources, portMappings, resolvedPorts, defaultNamespace) ==
  [DefaultNamespace |-> defaultNamespace,
   Resources |->
     [k \in 1..Len(resources) |->
        LET resource == resources[k]
            portMap == IF resource.Name \in DOMAIN portMappings
                         THEN portMappings[resource.Name] ELSE << >>
            resolvedPortMap ==
              IF resource.Type = ServiceResource /\ resource.Name \in DOMAIN resolvedPorts
                THEN resolvedPorts[resource.Name] ELSE << >>
        IN [ResourceType |-> EntryType(resource),
            Name |-> resource.Name,
            Namespace |-> IF resource.Namespace # defaultNamespace
                            THEN resource.Namespace ELSE "",
            Ports |-> [i \in 1..Len(resource.Ports) |->
                         [LocalPort |-> IF i \in DOMAIN portMap THEN portMap[i]
                                        ELSE resource.Ports[i],
                          RemotePort |-> targetPortOf(resource, resolvedPortMap, i)]]]]]

\* WriteConfig: the YAML document, its numbers in decimal.
WriteConfig(config) ==
  [defaultNamespace |-> config.DefaultNamespace,
   resources |->
     [k \in 1..Len(config.Resources) |->
        [resourceType |-> config.Resources[k].ResourceType,
         name |-> config.Resources[k].Name,
         namespace |-> config.Resources[k].Namespace,
         ports |-> [i \in 1..Len(config.Resources[k].Ports) |->
                      [localPort |-> DigitsOf(config.Resources[k].Ports[i].LocalPort),
                       remotePort |-> DigitsOf(config.Resources[k].Ports[i].RemotePort)]]]]]

\* validateConfig: the error, or "".
validateConfig(config) ==
  IF Len(config.Resources) = 0 THEN "no resources specified in config"
  ELSE IF \E k \in 1..Len(config.Resources) : config.Resources[k].ResourceType = ""
    THEN "resourceType is required"
  ELSE IF \E k \in 1..Len(config.Resources) :
            config.Resources[k].ResourceType
               \notin {"service", "pod", "deployment", "statefulset"}
    THEN "invalid resourceType"
  ELSE IF \E k \in 1..Len(config.Resources) : config.Resources[k].Name = ""
    THEN "name is required"
  ELSE IF \E k \in 1..Len(config.Resources) : Len(config.Resources[k].Ports) = 0
    THEN "no ports specified"
  ELSE IF \E k \in 1..Len(config.Resources) : \E i \in 1..Len(config.Resources[k].Ports) :
            config.Resources[k].Ports[i].RemotePort <= 0
    THEN "remotePort must be greater than 0"
  ELSE IF \E k \in 1..Len(config.Resources) : \E i \in 1..Len(config.Resources[k].Ports) :
            config.Resources[k].Ports[i].LocalPort < 0
    THEN "localPort must be at least 0"
  ELSE ""

\* LoadConfig of a document: yaml.Unmarshal, then validateConfig.
LoadConfig(document) ==
  LET config ==
        [DefaultNamespace |-> document.defaultNamespace,
         Resources |->
           [k \in 1..Len(document.resources) |->
              [ResourceType |-> document.resources[k].resourceType,
               Name |-> document.resources[k].name,
               Namespace |-> document.resources[k].namespace,
               Ports |-> [i \in 1..Len(document.resources[k].ports) |->
                            [LocalPort |-> ParseDigits(document.resources[k].ports[i].localPort),
                             RemotePort |-> ParseDigits(document.resources[k].ports[i].remotePort)]]]]]
  IN [err |-> validateConfig(config), config |-> config]

\* ConvertEntryToResource.
ConvertEntryToResource(entry, defaultNamespace) ==
  IF entry.ResourceType \notin {"service", "pod", "deployment", "statefulset"}
    THEN [err |-> "invalid resource type", resource |-> << >>]
    ELSE [err |-> "",
          resource |->
            [Name |-> entry.Name,
             Namespace |-> IF entry.Namespace # "" THEN entry.Namespace ELSE defaultNamespace,
             Type |-> entry.ResourceType,
             Ports |-> [i \in 1..Len(entry.Ports) |-> entry.Ports[i].RemotePort],
             TargetPortSpecs |-> [i \in 1..Len(entry.Ports) |-> IntSpec(entry.Ports[i].RemotePort)]]]

\* CreatePortMapping: the explicit local ports of an entry.
CreatePortMapping(entry) ==
  [i \in { j \in 1..Len(entry.Ports) : entry.Ports[j].LocalPort > 0 } |-> entry.Ports[i].LocalPort]

\* The resources a configuration is generated for.
ConfigResources ==
  { [Name |-> "b", Namespace |-> ns, Type |-> t, Ports |-> ports, TargetPortSpecs |-> << >>]
    : ns \in {"ns", "other"}, t \in {ServiceResource, PodResource}, ports \in ConfigPortLists }

\* The partial maps from the port indices of a resource to a port number.
IndexMaps(resource, values) ==
  UNION { [D -> values] : D \in SUBSET (1..Len(resource.Ports)) }

\* GenerateConfigFile writes the configuration of one resource, once in a
\* run of the program, and RunWithConfigFile loads the file and converts its
\* entry.
ConfigCall(resource, portMap, resolvedPortMap) ==
  /\ ~configCall.called
  /\ LET config == GenerateConfig(<< resource >>, [n \in {resource.Name} |-> portMap], [n \in {resource.Name} |-> resolvedPortMap], "ns")
         loaded == LoadConfig(WriteConfig(config))
     IN configCall' =
          [called |-> TRUE, resource |-> resource, portMap |-> portMap,
           resolvedPortMap |-> resolvedPortMap, config |-> config, loadErr |-> loaded.err,
           out |-> IF loaded.err # "" THEN [err |-> loaded.err, resource |-> << >>]
                   ELSE ConvertEntryToResource(loaded.config.Resources[1], "ns"),
           portMapping |-> IF loaded.err # "" THEN << >>
                           ELSE CreatePortMapping(loaded.config.Resources[1])]
  /\ UNCHANGED notConfigVars

ConfigNext ==
  \E resource \in ConfigResources :
    \E portMap \in IndexMaps(resource, {0, 8080}) :
      \E resolvedPortMap \in IndexMaps(resource, ResolvedValues) :
        ConfigCall(resource, portMap, resolvedPortMap)

ConfigSpec == Init /\ [][ConfigNext]_vars

\* ------------------------------------------------------------------ claims
\* A session whose connect goroutine has returned.
Exited(f) == connPc[f] = "done"

\* A session that was told to stop or has stopped by itself.
StoppedOrStopping(f) == StopChannel[f] = "closed" \/ connPc[f] \in {"closing", "done"}

\* The monitor of the session has nothing left to do unless the context is
\* cancelled later.
MonitorQuiet(f) == monPc[f] = "done" \/ (ErrorChannel[f] = 0 /\ ~ctxDone)

\* C1: when ForwardResource returns an error, every session the call had
\* started for the resource is stopped and its local port is released, so no
\* resource is left partially forwarded.
C1_FailedCallLeavesNothing ==
  (lastReturn.op = "ForwardResource" /\ lastReturn.err # "") =>
     \A f \in lastReturn.started :
        /\ StopChannel[f] = "closed"
        /\ Forwarders[f].LocalPort \notin allocatedPorts

\* C2: the local port of a session is released exactly once: never twice,
\* and once when the session has terminated and its monitor has settled.
C2_ReleasedExactlyOnce ==
  \A f \in Registered :
     /\ releases[f] <= 1
     /\ (Exited(f) /\ MonitorQuiet(f)) => releases[f] = 1

\* C3: no two live sessions share a local port.
C3_LiveSessionsDistinctPorts ==
  \A f, g \in Registered :
     (f # g /\ ~StoppedOrStopping(f) /\ ~StoppedOrStopping(g)) =>
        Forwarders[f].LocalPort # Forwarders[g].LocalPort

\* C4: once Manager.Stop has returned, and until ForwardResource is called
\* again, every registered session of every resource has its StopChannel
\* closed and its local port is absent from the allocation table.
C4_AfterStopAllClosedAndReleased ==
  lastReturn.op = "Stop" =>
     \A f \in Registered :
        /\ StopChannel[f] = "closed"
        /\ Forwarders[f].LocalPort \notin allocatedPorts

\* Manager.Stop has returned with the sessions of two different resources
\* registered, one of them serving when it was stopped.
C4_Witness ==
  /\ lastReturn.op = "Stop"
  /\ Len(Forwarders) = 2
  /\ Forwarders[1].Resource # Forwarders[2].Resource
  /\ \E f \in Registered : ReadyChannel[f] = "closed"

\* C5: Manager.Stop may be called any number of times, also after sessions
\* have stopped by themselves, and never fails.
C5_ManagerStopNeverFails == panicSite # "Manager.Stop"

\* C6: PortForwarder.Stop is idempotent: a call on a session whose
\* StopChannel is already closed, from Manager.Stop or from the rollback of
\* ForwardResource, is a no-op and does not fail.
C6_ForwarderStopIdempotent ==
  \A f \in Registered :
     StopChannel[f] = "closed" => panicSite \notin {"Manager.Stop", "rollback"}

\* C7: once every managed session has stopped, WaitForCompletion returns.
C7_WaitReturnsAfterAllStopped ==
  (Len(Forwarders) > 0 /\ ~call.active /\ \A f \in Registered : Exited(f))
     ~> (waitReturned \/ panicSite # "none")

\* C8: WaitForCompletion does not return while a managed session is still
\* running.
C8_WaitReturnsOnlyWhenAllStopped ==
  waitReturned => \A f \in Registered : StoppedOrStopping(f)

\* The waits of a session that exhausts its retries.
BackoffSequence == << 1, 2, 4, 8, 16 >>

C10_StopDuringBackoff ==
  /\ [][\A f \in Registered :
          /\ (connPc[f] = "backoff" /\ StopChannel[f] = "closed") =>
                (attempts'[f] = attempts[f] /\ connPc'[f] \in {"backoff", "done"})
          /\ Exited(f) => (attempts'[f] = attempts[f] /\ connPc'[f] = "done")]_vars
  /\ \A f \in SessionIds :
        (f \in Registered /\ connPc[f] = "backoff" /\ StopChannel[f] = "closed")
           ~> (Exited(f) \/ ~Running)

\* A session has stopped out of backoff: its last attempt failed, it was told
\* to stop and it returned without sending an error.
C10_Witness ==
  \E f \in Registered :
     /\ Exited(f)
     /\ failures[f] > 0
     /\ failures[f] = attempts[f]
     /\ errorsSent[f] = 0
     /\ StopChannel[f] = "closed"

\* C11: a session started with ForwardRequest.AutoRetry = false makes no
\* retry: it makes one attempt, and when that attempt has failed it has sent
\* its terminal error and is stopping or stopped.
C11_NoRetryWhenDisabled ==
  \A f \in Registered :
     ~reqAutoRetry[f] =>
        /\ RetryAttempts[f] = 0
        /\ attempts[f] <= 1
        /\ waits[f] = <<>>
        /\ failures[f] >= 1 => (errorsSent[f] = 1 /\ connPc[f] \in {"closing", "done"})

\* C12: once the Manager's context is cancelled, a session that waits in
\* backoff starts no further connect attempt: it stays in the wait or stops.
C12_NoAttemptAfterCancel ==
  [][\A f \in Registered :
        (ctxDone /\ connPc[f] = "backoff") =>
           (attempts'[f] = attempts[f] /\ connPc'[f] \in {"backoff", "done"})]_vars

\* The logged calls of one kind.
CallsOf(op) == { i \in 1..Len(allocLog) : allocLog[i].op = op }

\* C13: two AllocatePort(0) calls that both succeed, with the port of the
\* first not released in between, return distinct ports.
C13_EphemeralPortsDistinct ==
  \A i, j \in CallsOf("AllocatePort") :
     ( /\ i < j
       /\ allocLog[i].port = 0 /\ allocLog[i].err = ""
       /\ allocLog[j].port = 0 /\ allocLog[j].err = ""
       /\ \A k \in CallsOf("ReleasePort") :
             ~(i < k /\ k < j /\ allocLog[k].port = allocLog[i].result) )
     => allocLog[i].result # allocLog[j].result

\* C14: AllocatePort(P) with P > 0 fails when P is in the table and leaves the
\* table as it was; when P is not in the table it fails only because the OS
\* refuses the bind, and otherwise returns P and records it; a ReleasePort(P)
\* takes P out of the table, so that P can be allocated again.
C14_SpecificPort ==
  /\ \A i \in CallsOf("AllocatePort") :
        LET e == allocLog[i]
        IN e.port > 0 =>
             IF e.port \in e.before
               THEN e.err = "already allocated" /\ e.result = 0 /\ TableAfter(i) = e.before
               ELSE \/ e.err = "" /\ e.result = e.port
                       /\ TableAfter(i) = e.before \cup {e.port}
                    \/ e.err = "not available" /\ e.result = 0
                       /\ TableAfter(i) = e.before
  /\ \A i \in CallsOf("ReleasePort") : allocLog[i].port \notin TableAfter(i)

\* P is allocated, a second AllocatePort(P) fails, P is released and allocated
\* again.
C14_Witness ==
  \E port \in PortNums :
     /\ Len(allocLog) = 4
     /\ \A i \in {1, 2, 4} : allocLog[i].op = "AllocatePort" /\ allocLog[i].port = port
     /\ allocLog[3].op = "ReleasePort" /\ allocLog[3].port = port
     /\ allocLog[1].err = "" /\ allocLog[2].err # "" /\ allocLog[4].err = ""
     /\ allocLog[4].result = port

\* C15: ReleasePort(p) never fails and leaves the table without p and with
\* every other entry as it was, also when p is not in the table; a second
\* release of p changes nothing.
C15_ReleaseIdempotent ==
  /\ \A i \in CallsOf("ReleasePort") :
        LET e == allocLog[i]
        IN /\ e.err = ""
           /\ e.port \notin TableAfter(i)
           /\ \A q \in PortNums \ {e.port} : q \in TableAfter(i) <=> q \in e.before
  /\ \A p \in PortNums :
        ReleasePort(ReleasePort(allocatedPorts, p), p) = ReleasePort(allocatedPorts, p)

\* A port is released twice in a row while another port stays allocated.
C15_Witness ==
  \E i \in CallsOf("ReleasePort") :
     /\ i + 1 \in CallsOf("ReleasePort")
     /\ allocLog[i + 1].port = allocLog[i].port
     /\ allocLog[i].port \in allocLog[i].before
     /\ allocLog[i + 1].before # {}
     /\ TableAfter(i + 1) = allocLog[i + 1].before

\* C16: IsPortAvailable(p) returns true exactly when its bind of p succeeds,
\* whatever the allocator's table holds, and leaves the table as it was.
C16_ProbeIsPure ==
  \A i \in CallsOf("IsPortAvailable") :
     /\ allocLog[i].available = allocLog[i].listenOk
     /\ TableAfter(i) = allocLog[i].before

\* A port recorded as allocated was probed available, and a probe whose bind
\* failed reported FALSE.
C16_Witness ==
  /\ \E i \in CallsOf("IsPortAvailable") :
        allocLog[i].port \in allocLog[i].before /\ allocLog[i].available
  /\ \E i \in CallsOf("IsPortAvailable") :
        ~allocLog[i].listenOk /\ ~allocLog[i].available

\* The port mapping without entries.
NoMapping == << >>

\* C17: a ForwardResource call on a pod without a mapping entry for the port
\* does not fail because the pod's container port cannot be allocated as
\* local port: it falls back to an ephemeral port.
C17_PodDefaultFallsBack ==
  [][\A rid \in ResourceIds :
        ( /\ Resources[rid].Type = PodResource
          /\ ForwardResource(rid, NoMapping)
          /\ lastReturn'.op = "ForwardResource" )
        => lastReturn'.err # "failed to allocate requested local port"]_vars

\* C18: when the nonzero local port a mapping entry asks for cannot be
\* allocated, ForwardResource falls back to an ephemeral port: the call does
\* not fail on the requested port alone.
C18_ExplicitPortFallsBack ==
  [][/\ \A rid \in ResourceIds : \A portMapping \in PortMappings(Resources[rid]) :
          ( /\ 1 \in DOMAIN portMapping
            /\ portMapping[1] > 0
            /\ ForwardResource(rid, portMapping)
            /\ lastReturn'.op = "ForwardResource" )
          => lastReturn'.err # "failed to allocate requested local port"
     /\ ( /\ call.active
          /\ call.index \in DOMAIN call.portMapping
          /\ call.portMapping[call.index] > 0
          /\ ForwardResourceNext
          /\ lastReturn'.op = "ForwardResource" )
        => lastReturn'.err # "failed to allocate requested local port"]_vars

\* What a ForwardResource step for a mapping value 0 leaves: a session it
\* starts has a local port > 0 that is in the allocation table, and an error
\* it returns is not the failure to allocate one given port.
AutoAssigned ==
  /\ Len(Forwarders') > Len(Forwarders) =>
        LET pf == Forwarders'[Len(Forwarders')]
        IN pf.LocalPort > 0 /\ pf.LocalPort \in allocatedPorts'
  /\ (lastReturn'.op = "ForwardResource" /\ lastReturn'.err # "") =>
        lastReturn'.err \notin {"failed to allocate requested local port",
                                "already allocated", "not available"}

\* C19: a mapping value of 0 means auto-assign, for every resource type:
\* ForwardResource chooses the local port itself, the session's LocalPort is
\* > 0 and in the allocation table, and the call does not fail on a conflict
\* on the suggested port.
C19_ZeroMeansAutoAssign ==
  [][/\ \A rid \in ResourceIds : \A portMapping \in PortMappings(Resources[rid]) :
          ( /\ 1 \in DOMAIN portMapping
            /\ portMapping[1] = 0
            /\ ForwardResource(rid, portMapping) )
          => AutoAssigned
     /\ ( /\ call.active
          /\ call.index \in DOMAIN call.portMapping
          /\ call.portMapping[call.index] = 0
          /\ ForwardResourceNext )
        => AutoAssigned]_vars

\* A pod's session shares its local port with an earlier session whose port
\* was never released: the pod's container port was taken, and only the
\* ephemeral fallback of a mapping value 0 can have handed out that port.
C19_Witness ==
  \E f, g \in Registered :
     /\ f < g
     /\ Resources[Forwarders[g].Resource].Type = PodResource
     /\ Forwarders[g].LocalPort = Forwarders[f].LocalPort
     /\ Forwarders[g].LocalPort \in allocatedPorts
     /\ releases[f] = 0 /\ releases[g] = 0
     /\ lastReturn.op = "ForwardResource" /\ lastReturn.err = "" /\ g \in lastReturn.started

\* C20: resolveTargetPort with a nil spec or a numeric spec of value 0 returns
\* the service port, and with a numeric spec n # 0 returns n; it returns no
\* error and the same result for every pod.
C20_NumericTargetPort ==
  (resolveCall.called /\ resolveCall.targetSpec.Type \in {"nil", "Int"}) =>
     LET targetSpec == resolveCall.targetSpec
         expected == IF targetSpec.Type = "nil" \/ targetSpec.IntVal = 0
                       THEN resolveCall.servicePort
                       ELSE targetSpec.IntVal
     IN /\ resolveCall.out = [err |-> "", port |-> expected]
        /\ \A pod \in Pods :
              resolveTargetPort(targetSpec, resolveCall.servicePort, pod) = resolveCall.out

\* A numeric spec of value 0 was resolved to the service port for a pod whose
\* ports are all different from it.
C20_Witness ==
  /\ resolveCall.called
  /\ resolveCall.targetSpec = IntSpec(0)
  /\ resolveCall.pod.Ports # <<>>
  /\ \A i \in 1..Len(resolveCall.pod.Ports) :
        resolveCall.pod.Ports[i].ContainerPort # resolveCall.servicePort
  /\ resolveCall.out.port = resolveCall.servicePort

\* The indices of the pod ports of the last resolveTargetPort call whose name
\* is the name the spec gives.
NamedMatches ==
  { i \in 1..Len(resolveCall.pod.Ports) :
       resolveCall.pod.Ports[i].Name = resolveCall.targetSpec.StrVal }

\* C21: resolveTargetPort with a named spec returns the containerPort of the
\* first pod port whose name equals the name exactly, and fails with the
\* named-port-not-found error exactly when no pod port has the name.
C21_NamedTargetPort ==
  (resolveCall.called /\ resolveCall.targetSpec.Type = "String") =>
     IF NamedMatches = {}
       THEN resolveCall.out = [err |-> "named target port not found", port |-> 0]
       ELSE LET first == CHOOSE i \in NamedMatches : \A j \in NamedMatches : i <= j
            IN resolveCall.out = [err |-> "", port |-> resolveCall.pod.Ports[first].ContainerPort]

\* Two pod ports carry the name, with different container ports, and the
\* first one was returned.
C21_Witness ==
  /\ resolveCall.called
  /\ resolveCall.targetSpec.Type = "String"
  /\ NamedMatches = {1, 2}
  /\ resolveCall.pod.Ports[1].ContainerPort # resolveCall.pod.Ports[2].ContainerPort
  /\ resolveCall.out.port = resolveCall.pod.Ports[1].ContainerPort

-----------------------------------------------------------------------------
\* C22: for a Deployment or StatefulSet target the remote port of port index i
\* is ports[i] of the selected pod when i is in range and ports[0] when it is
\* not, never the value of the resource's own port list; when the target's
\* pods have no container ports the call fails with the no-ports error and
\* allocates nothing.
C22_DeploymentRemotePort ==
  ( /\ forwardCall.called
    /\ forwardCall.r.Type \in {DeploymentResource, StatefulSetResource}
    /\ ~forwardCall.listing.err
    /\ forwardCall.listing.items # <<>> ) =>
     LET withPorts == SelectSeq(forwardCall.listing.items, HasPorts)
         i == forwardCall.portIndex
     IN IF withPorts = <<>>
          THEN \A o \in forwardCall.out :
                  /\ o.err = "no container ports found in pod"
                  /\ o.alloc = allocatedPorts
          ELSE LET pod == withPorts[1]
                   remote == IF i <= Len(pod.Ports) THEN pod.Ports[i].ContainerPort
                             ELSE pod.Ports[1].ContainerPort
               IN /\ \E o \in forwardCall.out : o.err = ""
                  /\ \A o \in forwardCall.out :
                        o.LocalPort # 0 => o.RemotePort = remote /\ o.PodName = pod.Name

PortText ==
  [n \in 0..9 |-> CASE n = 0 -> "0" [] n = 1 -> "1" [] n = 2 -> "2" [] n = 3 -> "3"
                    [] n = 4 -> "4" [] n = 5 -> "5" [] n = 6 -> "6" [] n = 7 -> "7"
                    [] n = 8 -> "8" [] n = 9 -> "9"]

\* C25: the status string of a started session is exactly
\* "Forwarding <type>/<name> (target port <RemotePort>) -> localhost:<LocalPort>",
\* with the type in lower case, the session's RemotePort, and as LocalPort the
\* port the call allocated, the fallback port included.
C25_StatusString ==
  forwardCall.called =>
     \A o \in forwardCall.out :
        o.err = "" =>
          /\ o.LocalPort \in o.alloc \ allocatedPorts
          /\ forwardCall.localPort # 0 => o.LocalPort = forwardCall.localPort
          /\ \E type \in {"service", "deployment", "statefulset", "pod"} :
                /\ type = forwardCall.r.Type
                /\ GetPortForwardString(forwardCall.r, o.RemotePort, o.LocalPort)
                     = "Forwarding " \o type \o "/" \o forwardCall.r.Name \o " (target port "
                         \o PortText[o.RemotePort] \o ") -> localhost:" \o PortText[o.LocalPort]

C25_Witness ==
  /\ forwardCall.called
  /\ forwardCall.localPort = 0
  /\ \E o \in forwardCall.out :
        /\ o.err = ""
        /\ o.LocalPort # o.RemotePort
        /\ GetPortForwardString(forwardCall.r, o.RemotePort, o.LocalPort)
             = "Forwarding service/b (target port 2) -> localhost:1"

\* A step in which session f's tunnel fails, goes round for a retry or
\* terminates, or its monitor handles the final error.
FailureStep(f) ==
  TunnelFails(f) \/ BackoffElapsed(f) \/ ConnCloseStop(f) \/ MonitorError(f)

\* Session g is live and its local port is in the allocation table for it.
HoldsPort(g) ==
  /\ connPc[g] # "done"
  /\ releases[g] = 0
  /\ Forwarders[g].LocalPort \in allocatedPorts

\* C26: a step in which one session's tunnel fails, retries or terminates
\* changes the state of no other session, closes no other StopChannel, removes
\* no other live session's local port from the allocation table, and leaves
\* the process running.
C26_FailureIsolation ==
  [][\A f \in Registered :
       FailureStep(f) =>
         /\ panicSite' = "none"
         /\ \A g \in Registered \ {f} :
               /\ connPc'[g] = connPc[g]
               /\ monPc'[g] = monPc[g]
               /\ RetryAttempts'[g] = RetryAttempts[g]
               /\ StopChannel'[g] = StopChannel[g]
               /\ HoldsPort(g) => Forwarders[g].LocalPort \in allocatedPorts']_vars

\* The remote port of the session ForwardResource starts for port index k of
\* resource r when discovery returns PodWithPorts.
RemotePortOf(r, k) ==
  IF r.Type = ServiceResource
    THEN resolveTargetPort(r.TargetPortSpecs[k], r.Ports[k], PodWithPorts).port
  ELSE IF r.Type \in {DeploymentResource, StatefulSetResource}
    THEN PodWithPorts.Ports[k].ContainerPort
  ELSE r.Ports[k]

\* C27: a ForwardResource call goes through the port list in order: while it
\* is at index i, exactly the indices before i have been processed and their
\* sessions are registered in that order; when it returns an error for index
\* i, nothing was started for i or any later index and the call is over.
C27_PortsInListOrder ==
  /\ call.active =>
       /\ call.index \in 2..Len(Resources[call.rid].Ports)
       /\ call.started = (Len(Forwarders) - (call.index - 2))..Len(Forwarders)
       /\ \A k \in 1..(call.index - 1) :
             LET pf == Forwarders[Len(Forwarders) - (call.index - 1) + k]
             IN /\ pf.Resource = call.rid
                /\ pf.RemotePort = RemotePortOf(Resources[call.rid], k)
  /\ (lastReturn.op = "ForwardResource" /\ lastReturn.err # "") =>
       /\ ~call.active
       /\ Cardinality(lastReturn.started) = lastReturn.index - 1
       /\ lastReturn.started = (Len(Forwarders) - (lastReturn.index - 2))..Len(Forwarders)

C27_Witness ==
  /\ lastReturn.op = "ForwardResource"
  /\ lastReturn.err # ""
  /\ lastReturn.index = 2
  /\ Forwarders[Len(Forwarders)].RemotePort = 2

\* Task t is inside net.Listen.
Binding(t) == tasks[t].pc \in {"reserve.listen", "ephemeral.listen"}

\* C28: no task holds the PortAllocator's lock while it is inside an OS bind,
\* so no ReleasePort or AllocatePort waits for the lock during another
\* task's bind.
C28_NoLockAcrossBind ==
  \A t \in Tasks : Binding(t) => mu # t

\* The session has stopped and its monitor has released its port.
StoppedAndReleased(f) == connPc[f] = "done" /\ monPc[f] = "done"

\* C29: a session that has stopped and whose port has been released is out
\* of the manager's registry: no later Manager.Stop or rollback releases its
\* port again or calls Stop on it.
C29_StoppedSessionsLeaveRegistry ==
  [][\A f \in Registered :
       StoppedAndReleased(f) =>
         /\ releases'[f] = releases[f]
         /\ (panicSite = "none" /\ panicSite' = "Manager.Stop") =>
               FirstClosed(AllForwarders) # f
         /\ (panicSite = "none" /\ panicSite' = "rollback") =>
               FirstClosed(SameResource(Resources[Forwarders[f].Resource])) # f]_vars

\* More than one of --pods, --deployments, --statefulsets is set in the last run.
SeveralModes ==
  \/ runCall.usePods /\ runCall.useDeployments
  \/ runCall.usePods /\ runCall.useStatefulSets
  \/ runCall.useDeployments /\ runCall.useStatefulSets

ModeError == "only one of --pods, --deployments, or --statefulsets can be used at a time"

FailingReturn ==
  \/ lastReturn' # lastReturn /\ lastReturn'.op = "ForwardResource" /\ lastReturn'.err # ""
  \/ panicSite = "none" /\ panicSite' = "rollback"

\* C31: the rollback of a failing ForwardResource call touches only the
\* sessions this call started: every other registered session keeps its
\* StopChannel, is not released, and keeps its port in the allocation table.
C31_RollbackScope ==
  [][FailingReturn =>
       \A f \in Registered \ (IF call.active THEN call.started ELSE {}) :
          /\ StopChannel'[f] = StopChannel[f]
          /\ releases'[f] = releases[f]
          /\ Forwarders[f].LocalPort \in allocatedPorts =>
                Forwarders[f].LocalPort \in allocatedPorts']_vars

\* C32: when a session that has been ready retries after a tunnel failure and
\* the new tunnel gets to listen, the session is serving again on the same
\* ports and the process goes on running.
C32_ReconnectsAfterReady ==
  [][\A f \in Registered :
       (TunnelListens(f) /\ ReadyChannel[f] = "closed" /\ RetryAttempts[f] > 0) =>
          /\ connPc'[f] = "serving"
          /\ panicSite' = "none"
          /\ Forwarders'[f] = Forwarders[f]]_vars

UnsupportedIds ==
  { rid \in ResourceIds :
      Resources[rid].Type \notin {PodResource, ServiceResource, DeploymentResource,
                                  StatefulSetResource} }

\* C34: a ForwardResource call on a resource of an unsupported type returns
\* an error (the unsupported-resource-type error, or the allocation error when
\* no local port could be taken), registers no session, starts no monitor and
\* leaves the allocation table as it was before the call.
C34_UnsupportedTypeRejected ==
  [][\A rid \in UnsupportedIds : \A portMapping \in PortMappings(Resources[rid]) :
       ForwardResource(rid, portMapping) =>
          /\ lastReturn'.op = "ForwardResource"
          /\ lastReturn'.err \in {"unsupported resource type",
                                  "failed to allocate requested local port",
                                  "failed to allocate local port"}
          /\ Forwarders' = Forwarders
          /\ ForwardWait' = ForwardWait
          /\ allocatedPorts' = allocatedPorts]_vars

\* C35: for port i of a service, GenerateConfig writes as remotePort the
\* resolved container port given in resolvedPorts (the service port when none
\* is given); the entry read back from the written file converts without error
\* to a resource whose port i and numeric target-port spec i are that number,
\* and resolveTargetPort on them gives that number again for any pod.
ResolvedAtGeneration(i) ==
  IF i \in DOMAIN configCall.resolvedPortMap
    THEN configCall.resolvedPortMap[i]
    ELSE configCall.resource.Ports[i]

C35_ServiceConfigRoundTrip ==
  (configCall.called /\ configCall.resource.Type = ServiceResource) =>
     /\ configCall.out.err = ""
     /\ Len(configCall.out.resource.Ports) = Len(configCall.resource.Ports)
     /\ \A i \in 1..Len(configCall.resource.Ports) :
          /\ configCall.config.Resources[1].Ports[i].RemotePort = ResolvedAtGeneration(i)
          /\ configCall.out.resource.Ports[i] = ResolvedAtGeneration(i)
          /\ configCall.out.resource.TargetPortSpecs[i] = IntSpec(ResolvedAtGeneration(i))
          /\ \A pod \in {PodWithPorts, PodOnePort, PodNoPorts} :
               resolveTargetPort(configCall.out.resource.TargetPortSpecs[i],
                                 configCall.out.resource.Ports[i], pod)
                 = [port |-> ResolvedAtGeneration(i), err |-> ""]

\* A service with port 80 whose container port was resolved to 8080.
C35_Witness ==
  /\ configCall.called
  /\ configCall.resource.Type = ServiceResource
  /\ configCall.resource.Ports = << 80, 2 >>
  /\ DOMAIN configCall.resolvedPortMap = {1}
  /\ configCall.resolvedPortMap[1] = 8080
  /\ configCall.out.err = ""
  /\ configCall.out.resource.Ports = << 8080, 2 >>

\* C36: an AllocatePort call that fails, because the requested port is in the
\* table, because the requested port cannot be bound, or because the ephemeral
\* bind fails, returns port 0 with an error and leaves the table as it was
\* before the call; a call returns port 0 only when it fails.
C36_FailedAllocationChangesNothing ==
  \A i \in CallsOf("AllocatePort") :
     LET e == allocLog[i]
     IN /\ e.err # "" =>
             /\ e.result = 0
             /\ TableAfter(i) = e.before
             /\ e.err \in {"already allocated", "not available", "failed to allocate ephemeral port"}
        /\ (e.port > 0 /\ e.port \in e.before) => e.err = "already allocated"
        /\ e.result = 0 => e.err # ""

\* The three failures in one history: port in the table, port not bindable,
\* ephemeral bind failure, each with a table that is not empty.
C36_Witness ==
  /\ Len(allocLog) = 4
  /\ \A i \in 1..4 : allocLog[i].op = "AllocatePort"
  /\ allocLog[1].err = "" /\ allocLog[1].port = 1
  /\ allocLog[2].err = "already allocated" /\ allocLog[2].port = 1
  /\ allocLog[3].err = "not available" /\ allocLog[3].port = 2
  /\ allocLog[4].err = "failed to allocate ephemeral port" /\ allocLog[4].port = 0
  /\ allocatedPorts = {1}

\* C37: in every reachable state the RetryAttempts of a session is between 0
\* and MaxRetries and the session has called ForwardPorts at most
\* MaxRetries + 1 times; a step leaves RetryAttempts as it is or raises it by
\* exactly one, and it raises it exactly when a backoff wait has elapsed; a
\* connection that succeeds after retries leaves the count as it is.
C37_RetryCountBounded ==
  /\ [](\A f \in SessionIds :
          /\ RetryAttempts[f] \in 0..MaxRetries
          /\ attempts[f] <= MaxRetries + 1
          /\ attempts[f] <= RetryAttempts[f] + 1)
  /\ [][\A f \in SessionIds :
          /\ RetryAttempts'[f] \in {RetryAttempts[f], RetryAttempts[f] + 1}
          /\ RetryAttempts'[f] = RetryAttempts[f] + 1
               <=> (connPc[f] = "backoff" /\ Len(waits'[f]) = Len(waits[f]) + 1)
          /\ (connPc[f] = "fwd" /\ connPc'[f] = "serving") =>
                RetryAttempts'[f] = RetryAttempts[f]]_vars

\* A session that failed MaxRetries times, made its last attempt and is
\* connected, with all its retries still counted.
C37_Witness ==
  \E f \in Registered :
     /\ RetryAttempts[f] = MaxRetries
     /\ attempts[f] = MaxRetries + 1
     /\ connPc[f] = "serving"
     /\ panicSite = "none"

\* C38: in every reachable state, every registered session whose connect loop
\* is still running and was not told to stop has a LocalPort greater than 0
\* that is present in the allocation table.
C38_LiveSessionKeepsPort ==
  \A f \in Registered :
     ~StoppedOrStopping(f) =>
        /\ Forwarders[f].LocalPort > 0
        /\ Forwarders[f].LocalPort \in allocatedPorts

\* The sessions whose tunnel goroutine was launched.
Launched == { f \in SessionIds : connPc[f] # "none" }

\* The sessions whose monitor goroutine has not returned.
Monitored == { f \in SessionIds : monPc[f] \in {"wait", "ready"} }

\* C39: whenever Manager.mutex is free, every session whose tunnel goroutine
\* was launched is registered in Manager.Forwarders and had its monitor
\* counted; ForwardWait is the number of monitors that have not returned and
\* is never negative; Manager.Stop runs only while no ForwardResource call
\* holds the mutex, it visits every launched session, and when it returns
\* every one of them has its StopChannel closed.
C39_StartedSessionsRegistered ==
  /\ [](/\ ~call.active => \A f \in Launched : f \in Registered /\ monPc[f] # "none"
        /\ ForwardWait = Cardinality(Monitored)
        /\ ForwardWait >= 0)
  /\ [][ManagerStop =>
          /\ ~call.active
          /\ Launched \subseteq AllForwarders
          /\ lastReturn'.op = "Stop" => \A f \in Launched : StopChannel'[f] = "closed"]_vars

\* Two sessions were launched by two calls, one monitor has returned, and
\* Manager.Stop has returned after closing both StopChannels.
C39_Witness ==
  /\ ~call.active
  /\ Launched = {1, 2}
  /\ Forwarders[1].Resource # Forwarders[2].Resource
  /\ monPc[1] = "done" /\ monPc[2] = "wait"
  /\ ForwardWait = 1
  /\ lastReturn.op = "Stop"
  /\ \A f \in Launched : StopChannel[f] = "closed" /\ releases[f] >= 1

\* C40: the connect goroutine of a session sends at most one value on its
\* error channel; whenever it is still in its loop the channel is empty, so
\* that the send finds room in the buffer of capacity 1 and does not block;
\* after the send it makes no further attempt and no further send, it closes
\* its StopChannel and returns, and it does so whether or not a monitor
\* receives the value.
C40_OneErrorThenExit ==
  /\ [](\A f \in SessionIds :
          /\ errorsSent[f] <= 1
          /\ ErrorChannel[f] <= 1
          /\ connPc[f] \in {"new", "fwd", "serving", "backoff"} =>
                errorsSent[f] = 0 /\ ErrorChannel[f] = 0)
  /\ [][\A f \in SessionIds :
          /\ errorsSent'[f] # errorsSent[f] =>
                /\ errorsSent'[f] = errorsSent[f] + 1
                /\ ErrorChannel[f] = 0
                /\ connPc'[f] = "closing"
          /\ connPc[f] = "closing" =>
                /\ connPc'[f] \in {"closing", "done"}
                /\ attempts'[f] = attempts[f]
                /\ errorsSent'[f] = errorsSent[f]]_vars
  /\ \A f \in SessionIds : (connPc[f] = "closing") ~> (Exited(f) \/ ~Running)

\* A session has sent its error and returned while its monitor had already
\* returned: the value stays in the channel.
C40_Witness ==
  \E f \in Registered :
     /\ Exited(f)
     /\ errorsSent[f] = 1
     /\ ErrorChannel[f] = 1
     /\ monPc[f] = "done"
     /\ panicSite = "none"

====
